---- MODULE Spec2Model ----
(***************************************************************************)
(* Model of the jitter_frame_format crate: the 6-byte frame header and its *)
(* length arithmetic (frame.rs), frame decoding with the split base64      *)
(* decode and the CRC-16/USB check (frame.rs), the chunked Transmitter     *)
(* (transmitter.rs) and the resynchronizing Receiver (receiver.rs).        *)
(*                                                                         *)
(* Bytes are integers 0..255, byte slices are sequences.  A Rust panic     *)
(* (index out of bounds, failed assert!) is the result "Panic".            *)
(***************************************************************************)
EXTENDS Integers, Sequences, FiniteSets, TLC

(***************************************************************************)
(* Program constants                                                       *)
(***************************************************************************)
START_OF_FRAME == 241
END_OF_HEADER == 255
ID_MAX == 61695
LENGTH_MAX == 61695
BLOCK_SIZE == 30
\* usize::MAX / 8 of the overflow guard, for a 32-bit usize
USIZE_MAX_DIV_8 == 536870911
\* '=' : the padding symbol of the base64 alphabet
PAD == 61

(***************************************************************************)
(* Small helpers on byte sequences                                         *)
(***************************************************************************)
Pow2(n) == 2 ^ n

Drop(s, n) == IF n >= Len(s) THEN << >> ELSE SubSeq(s, n + 1, Len(s))

Take(s, n) == IF n >= Len(s) THEN s ELSE SubSeq(s, 1, n)

RECURSIVE Xor(_, _)
Xor(a, b) ==
    IF a = 0 THEN b
    ELSE IF b = 0 THEN a
    ELSE ((a + b) % 2) + 2 * Xor(a \div 2, b \div 2)

(***************************************************************************)
(* CRC-16/USB: reflected polynomial 0x8005 (0xA001), init 0xFFFF,          *)
(* xorout 0xFFFF, as Crc::<u16>::new(&CRC_16_USB) computes it.             *)
(***************************************************************************)
RECURSIVE CrcShift(_, _)
CrcShift(c, k) ==
    IF k = 0 THEN c
    ELSE CrcShift(IF c % 2 = 1 THEN Xor(c \div 2, 40961) ELSE c \div 2, k - 1)

\* the lookup table of the crc crate
CrcTable == [ b \in 0..255 |-> CrcShift(b, 8) ]

RECURSIVE CrcUpdate(_, _, _)
CrcUpdate(c, data, i) ==
    IF c > 65535 \/ i > Len(data) THEN c    \* c is a u16
    ELSE CrcUpdate(Xor(CrcTable[Xor(c % 256, data[i])], c \div 256), data, i + 1)

checksum(data) == 65535 - CrcUpdate(65535, data, 1)

to_le_bytes(v) == << v % 256, v \div 256 >>

from_le_bytes(b) == b[1] + 256 * b[2]

(***************************************************************************)
(* base64, standard alphabet, no padding on encode                         *)
(* (base64::Config::new(CharacterSet::Standard, false)).                   *)
(***************************************************************************)
B64Char(v) ==
    IF v < 26 THEN 65 + v
    ELSE IF v < 52 THEN 97 + (v - 26)
    ELSE IF v < 62 THEN 48 + (v - 52)
    ELSE IF v = 62 THEN 43
    ELSE 47

\* the decode table: the 6-bit value of a symbol, or -1 (INVALID_VALUE)
B64Value(c) ==
    IF c >= 65 /\ c <= 90 THEN c - 65
    ELSE IF c >= 97 /\ c <= 122 THEN c - 97 + 26
    ELSE IF c >= 48 /\ c <= 57 THEN c - 48 + 52
    ELSE IF c = 43 THEN 62
    ELSE IF c = 47 THEN 63
    ELSE -1

\* number of symbols that encode n bytes without padding
encoded_size(n) == (n * 8 + 5) \div 6

\* base64::encode_config_slice: symbol j (0-based) holds bits 6j..6j+5
encode_config_slice(input) ==
    LET n == Len(input)
        At(i) == IF i <= n THEN input[i] ELSE 0
    IN  [ j \in 1..encoded_size(n) |->
            LET bit == 6 * (j - 1)
                k   == bit \div 8
                off == bit % 8
            IN  B64Char(((At(k + 1) * 256 + At(k + 2)) \div Pow2(10 - off)) % 64) ]

\* base64::decode_config_slice.  Symbols before the last block of at most 8
\* are looked up in the decode table; the last block accepts '=' as the 3rd
\* or 4th symbol of a quad when only '=' follows it, and the bits of the last
\* symbol that do not fill a byte must be zero (InvalidLastSymbol).
\* The result is [ok, bytes]; every DecodeError is ok = FALSE.
decode_config_slice(input) ==
    LET n        == Len(input)
        rem      == n % 8
        start    == IF n = 0 THEN 0 ELSE IF rem = 0 THEN n - 8 ELSE n - rem
        left     == Drop(input, start)
        padIdx   == { i \in 1..Len(left) : left[i] = PAD }
        firstPad == IF padIdx = {} THEN Len(left) + 1
                    ELSE CHOOSE i \in padIdx : \A j \in padIdx : i <= j
        morsels  == firstPad - 1
        badPad   == \E i \in padIdx : (i - 1) % 4 < 2
        afterPad == \E i \in firstPad..Len(left) : left[i] # PAD
        invalid  == \E i \in 1..(start + morsels) : B64Value(input[i]) = -1
        cnt      == start + morsels
        trailing == (cnt * 6) % 8
        lastBad  == cnt > 0 /\ B64Value(input[cnt]) % Pow2(trailing) # 0
        Val(i)   == B64Value(input[i])
    IN  IF rem = 1 \/ rem = 5 \/ badPad \/ afterPad \/ invalid \/ lastBad
        THEN [ok |-> FALSE, bytes |-> << >>]
        ELSE [ok |-> TRUE,
              bytes |-> [ k \in 1..((cnt * 6) \div 8) |->
                            LET bit == 8 * (k - 1)
                                c   == bit \div 6
                                off == bit % 6
                            IN  ((Val(c + 1) * 64 + Val(c + 2)) \div Pow2(4 - off)) % 256 ]]

(***************************************************************************)
(* FrameHeader (frame.rs).  A header is [id, length]; a fallible result    *)
(* is [res, id, length] with res = "Ok" or the Error variant.              *)
(***************************************************************************)
HeaderErr(e) == [res |-> e, id |-> 0, length |-> 0]

div_round_up(a, b) == IF a = 0 THEN 1 ELSE (a - 1) \div b + 1

\* calculate_length_field without the empty-payload case
calculate_length_field_always_crc(payload_length) ==
    IF payload_length >= USIZE_MAX_DIV_8 - 2
    THEN [res |-> "InvalidLength", val |-> 0]
    ELSE LET packet_length == div_round_up((payload_length + 2) * 8, 6)
         IN  IF packet_length > LENGTH_MAX
             THEN [res |-> "InvalidLength", val |-> 0]
             ELSE [res |-> "Ok", val |-> packet_length]

\* [res, val]
calculate_length_field(payload_length) ==
    IF payload_length = 0 THEN [res |-> "Ok", val |-> 0]
    ELSE IF payload_length >= USIZE_MAX_DIV_8 - 2
         THEN [res |-> "InvalidLength", val |-> 0]
    ELSE LET packet_length == div_round_up((payload_length + 2) * 8, 6)
         IN  IF packet_length > LENGTH_MAX
             THEN [res |-> "InvalidLength", val |-> 0]
             ELSE [res |-> "Ok", val |-> packet_length]

\* from_raw refusing the largest id and the largest length
from_raw_exclusive(id, length) ==
    IF id >= ID_MAX THEN HeaderErr("InvalidID")
    ELSE IF length >= LENGTH_MAX THEN HeaderErr("InvalidLength")
    ELSE [res |-> "Ok", id |-> id, length |-> length]

from_raw(id, length) ==
    IF id > ID_MAX THEN HeaderErr("InvalidID")
    ELSE IF length > LENGTH_MAX THEN HeaderErr("InvalidLength")
    ELSE [res |-> "Ok", id |-> id, length |-> length]

\* FrameHeader::new looking at the id before it computes the length field
FrameHeader_new_id_first(id, payload_length) ==
    LET l == calculate_length_field(payload_length)
    IN  IF id > ID_MAX THEN HeaderErr("InvalidID")
        ELSE IF l.res # "Ok" THEN HeaderErr(l.res) ELSE from_raw(id, l.val)

FrameHeader_new(id, payload_length) ==
    LET l == calculate_length_field(payload_length)
    IN  IF l.res # "Ok" THEN HeaderErr(l.res) ELSE from_raw(id, l.val)

data_len(h) == h.length

total_packet_len(h) == 6 + data_len(h)

\* payload_len dividing before it multiplies
payload_len_div_first(h) ==
    LET binary_len == (data_len(h) \div 8) * 6
    IN  IF binary_len >= 2 THEN binary_len - 2 ELSE 0

payload_len(h) ==
    LET binary_len == (data_len(h) * 6) \div 8
    IN  IF binary_len >= 2 THEN binary_len - 2 ELSE 0

\* as_bytes with the two fields high byte first
as_bytes_big_endian(h) ==
    << START_OF_FRAME, h.id \div 256, h.id % 256,
       h.length \div 256, h.length % 256, END_OF_HEADER >>

as_bytes(h) ==
    << START_OF_FRAME >> \o to_le_bytes(h.id) \o to_le_bytes(h.length)
        \o << END_OF_HEADER >>

\* impl TryFrom<&[u8]> for FrameHeader
FrameHeader_try_from(slice) ==
    IF Len(slice) # 6 THEN HeaderErr("TooFewBytes")
    ELSE IF slice[1] # START_OF_FRAME THEN HeaderErr("InvalidHeader")
    ELSE IF slice[6] # END_OF_HEADER THEN HeaderErr("InvalidHeader")
    ELSE from_raw(from_le_bytes(SubSeq(slice, 2, 3)),
                  from_le_bytes(SubSeq(slice, 4, 5)))

(***************************************************************************)
(* Frame<N> (frame.rs).  A frame result is [res, id, bytes]: bytes is what *)
(* Frame::bytes() returns, data[0..payload_len()].                         *)
(***************************************************************************)
FrameErr(e) == [res |-> e, id |-> 0, bytes |-> << >>]

\* split_offset without the 4 symbols kept back for the tail
split_offset_no_tail(b64_len) ==
    IF b64_len < 8 THEN 0 ELSE (b64_len \div 4) * 4

split_offset(b64_len) ==
    IF b64_len < 8 THEN 0 ELSE ((b64_len - 4) \div 4) * 4

\* Frame::try_from after both decodes (frame.rs from "if remaining_len < 2"):
\* bulk and tail are the decoded bytes
frame_finish(header, bulk, tail) ==
    IF Len(tail) < 2 THEN FrameErr("TooFewBytes")
    ELSE LET remaining_data_len == Len(tail) - 2 IN
    \* assert!(total_data_len == frame.header.payload_len())
    IF Len(bulk) + remaining_data_len # payload_len(header) THEN FrameErr("Panic")
    ELSE IF from_le_bytes(Drop(tail, remaining_data_len))
                # checksum(bulk \o Take(tail, remaining_data_len))
    THEN FrameErr("InvalidCRC")
    ELSE [res |-> "Ok", id |-> header.id,
          bytes |-> bulk \o Take(tail, remaining_data_len)]

\* the two decode_config_slice calls: bulk into frame.data: [u8; N], tail
\* into last_bytes: [u8; 8]; decode_config_slice indexes past a buffer that
\* is too small
frame_decode(header, bulk, tail, N) ==
    IF ~bulk.ok THEN FrameErr("InvalidBase64")
    ELSE IF Len(bulk.bytes) > N THEN FrameErr("Panic")
    ELSE IF ~tail.ok THEN FrameErr("InvalidBase64")
    ELSE IF Len(tail.bytes) > 8 THEN FrameErr("Panic")
    ELSE frame_finish(header, bulk.bytes, tail.bytes)

\* impl TryFrom<(FrameHeader, &[u8])> for Frame<N>
Frame_try_from(header, b64_data, N) ==
    IF N < payload_len(header) THEN FrameErr("TooManyBytes")
    ELSE IF Len(b64_data) < data_len(header) THEN FrameErr("TooFewBytes")
    ELSE IF Len(b64_data) > data_len(header) THEN FrameErr("TooManyBytes")
    ELSE IF data_len(header) = 0
    THEN [res |-> "Ok", id |-> header.id, bytes |-> << >>]
    ELSE frame_decode(header,
             decode_config_slice(Take(b64_data, split_offset(data_len(header)))),
             decode_config_slice(Drop(b64_data, split_offset(data_len(header)))),
             N)

\* Frame::new: data starts as [0; N] and s.data[i] = payload[i] indexes past
\* it when the payload is longer than N; bytes() is data[0..payload_len()]
Frame_new(id, payload, N) ==
    LET h == FrameHeader_new(id, Len(payload)) IN
    IF h.res # "Ok" THEN FrameErr(h.res)
    ELSE IF Len(payload) > N THEN FrameErr("Panic")
    ELSE LET data == [ i \in 1..N |-> IF i <= Len(payload) THEN payload[i] ELSE 0 ]
         IN  [res |-> "Ok", id |-> h.id,
              bytes |-> SubSeq(data, 1, payload_len([id |-> h.id, length |-> h.length]))]

\* impl TryFrom<&[u8]> for Frame<N>: slice[0..6] panics on a short slice
Frame_try_from_slice(slice, N) ==
    IF Len(slice) < 6 THEN FrameErr("Panic")
    ELSE LET h == FrameHeader_try_from(Take(slice, 6))
         IN  IF h.res # "Ok" THEN FrameErr(h.res)
             ELSE Frame_try_from([id |-> h.id, length |-> h.length], Drop(slice, 6), N)

(***************************************************************************)
(* Transmitter (transmitter.rs).  The transmit queue is a bounded buffer:  *)
(* q is what has been written, capacity its size.                          *)
(***************************************************************************)
space_available(q, capacity) == capacity - Len(q)

\* The block loop of transmit: [out, panic].  out is what is handed to
\* write() before the loop ends or panics.
RECURSIVE encode_blocks(_, _, _)
encode_blocks(data, offset, crc) ==
    IF offset >= Len(data) THEN [out |-> << >>, panic |-> FALSE]
    ELSE LET end_index == offset + BLOCK_SIZE IN
         IF end_index + 1 < Len(data)
         THEN LET rest == encode_blocks(data, end_index, crc)
              IN  [out   |-> encode_config_slice(SubSeq(data, offset + 1, end_index))
                                \o rest.out,
                   panic |-> rest.panic]
         ELSE LET input  == Drop(data, offset)
                  in_len == Len(input)
              IN  \* tmp: [u8; BLOCK_SIZE + 2]; tmp[in_len + 1] = checksum[1]
                  IF in_len + 1 >= BLOCK_SIZE + 2
                  THEN [out |-> << >>, panic |-> TRUE]
                  ELSE LET rest == encode_blocks(data, end_index, crc)
                       IN  [out   |-> encode_config_slice(input \o crc) \o rest.out,
                            panic |-> rest.panic]

\* The raw bytes each pass of the block loop encodes, in order:
\* [input, crc], crc telling whether the pass took the last-block branch and
\* put the checksum behind input in tmp.  A pass that panics ends the list.
RECURSIVE block_inputs(_, _)
block_inputs(data, offset) ==
    IF offset >= Len(data) THEN << >>
    ELSE LET end_index == offset + BLOCK_SIZE IN
         IF end_index + 1 < Len(data)
         THEN << [input |-> SubSeq(data, offset + 1, end_index), crc |-> FALSE] >>
                  \o block_inputs(data, end_index)
         ELSE LET input == Drop(data, offset)
              IN  IF Len(input) + 1 >= BLOCK_SIZE + 2
                  THEN << [input |-> input, crc |-> TRUE] >>
                  ELSE << [input |-> input, crc |-> TRUE] >>
                           \o block_inputs(data, end_index)

\* transmit writing the header before it looks at the free space
transmit_header_first(q, capacity, packet_id, data) ==
    LET h == FrameHeader_new(packet_id, Len(data)) IN
    IF h.res # "Ok" THEN [res |-> h.res, q |-> q]
    ELSE IF space_available(q, capacity) < total_packet_len(h)
    THEN [res |-> "WouldBlock",
          q |-> q \o Take(as_bytes(h), space_available(q, capacity))]
    ELSE LET blocks == encode_blocks(data, 0, to_le_bytes(checksum(data)))
             burst  == as_bytes(h) \o blocks.out
         IN  IF blocks.panic THEN [res |-> "Panic", q |-> q \o burst]
             ELSE [res |-> "Ok", q |-> q \o burst]

\* Transmitter::transmit: [res, q], q the queue after the call
transmit(q, capacity, packet_id, data) ==
    LET h == FrameHeader_new(packet_id, Len(data)) IN
    IF h.res # "Ok" THEN [res |-> h.res, q |-> q]
    ELSE IF space_available(q, capacity) < total_packet_len(h)
    THEN [res |-> "WouldBlock", q |-> q]
    ELSE LET blocks == encode_blocks(data, 0, to_le_bytes(checksum(data)))
             burst  == as_bytes(h) \o blocks.out
             room   == space_available(q, capacity)
         IN  IF Len(burst) > room
             THEN [res |-> "QueueOverflow", q |-> q \o Take(burst, room)]
             ELSE IF blocks.panic THEN [res |-> "Panic", q |-> q \o burst]
             ELSE [res |-> "Ok", q |-> q \o burst]

\* Transmitter::transmit_frame; frame is [id, bytes]
transmit_frame(q, capacity, frame) == transmit(q, capacity, frame.id, frame.bytes)

(***************************************************************************)
(* Receiver (receiver.rs).  The receiver state is [q, skipped, flushed]:   *)
(* q the bytes from the read cursor on, skipped the bytes_skipped counter, *)
(* flushed the read cursor.                                                *)
(***************************************************************************)
flush(st, n) == [st EXCEPT !.q = Drop(st.q, n), !.flushed = st.flushed + n]

\* skip_byte that forgets the counter
skip_byte_uncounted(st) == flush(st, 1)

skip_byte(st) == [flush(st, 1) EXCEPT !.skipped = st.skipped + 1]

\* ReceiveQueue::peek_at on a queue that holds st.q: the byte at offset, or
\* -1 for None when offset is not below bytes_available()
peek_at(st, offset) == IF offset < Len(st.q) THEN st.q[offset + 1] ELSE -1

\* Receiver::peek_bytes(offset, n, result), result being a buffer of size
\* bytes: [res, bytes].  Pass i peeks at offset + i and then stores the byte
\* in result[i]: the first pass that gets None ends the call with
\* QueueUnderflow, the first that stores past the end of result panics.
peek_bytes(st, offset, n, size) ==
    LET none == { i \in 0..(n - 1) : peek_at(st, offset + i) = -1 }
        past == { i \in 0..(n - 1) : i >= size }
        bad  == none \cup past
    IN  IF bad = {}
        THEN [res |-> "Ok", bytes |-> [ i \in 1..n |-> peek_at(st, offset + i - 1) ]]
        ELSE IF (CHOOSE i \in bad : \A j \in bad : i <= j) \in none
        THEN [res |-> "QueueUnderflow", bytes |-> << >>]
        ELSE [res |-> "Panic", bytes |-> << >>]

\* the hunt loop of rx_header: skip bytes until START_OF_FRAME is at the front
RECURSIVE hunt(_)
hunt(st) ==
    IF st.q = << >> \/ st.q[1] = START_OF_FRAME THEN st ELSE hunt(skip_byte(st))

\* rx_header once FrameHeader::try_from(header_bytes) has returned h
rx_header_parse(st, h) ==
    IF h.res = "Ok"
    THEN [res |-> "Ok", id |-> h.id, length |-> h.length, st |-> st]
    ELSE [res |-> h.res, id |-> 0, length |-> 0, st |-> skip_byte(st)]

\* rx_header after peek_bytes(0, 6, &mut header_bytes) returned p
rx_header_peeked(st, p) ==
    IF p.res # "Ok" THEN [res |-> p.res, id |-> 0, length |-> 0, st |-> st]
    ELSE rx_header_parse(st, FrameHeader_try_from(p.bytes))

\* rx_header giving up on a start marker that has fewer than 6 bytes
rx_header_wait_discard(st) ==
    IF st.q = << >>
    THEN [res |-> "WouldBlock", id |-> 0, length |-> 0, st |-> st]
    ELSE IF Len(st.q) < 6
    THEN [res |-> "WouldBlock", id |-> 0, length |-> 0, st |-> skip_byte(st)]
    ELSE rx_header_peeked(st, peek_bytes(st, 0, 6, 6))

\* rx_header once the hunt has stopped at st
rx_header_wait(st) ==
    IF st.q = << >> \/ Len(st.q) < 6
    THEN [res |-> "WouldBlock", id |-> 0, length |-> 0, st |-> st]
    ELSE rx_header_peeked(st, peek_bytes(st, 0, 6, 6))

\* Receiver::rx_header: [res, id, length, st]
rx_header(st0) == rx_header_wait(hunt(st0))

RxErr(e, st) == [res |-> e, id |-> 0, bytes |-> << >>, st |-> st]

\* receive leaving the queue alone when Frame::try_from fails
receive_frame_keep(st, f, total_len) ==
    IF f.res = "Ok"
    THEN [res |-> "Ok", id |-> f.id, bytes |-> f.bytes, st |-> flush(st, total_len)]
    ELSE RxErr(f.res, st)

\* receive counting the bytes of a returned frame as skipped
receive_frame_counted(st, f, total_len) ==
    IF f.res = "Ok"
    THEN [res |-> "Ok", id |-> f.id, bytes |-> f.bytes,
          st |-> [flush(st, total_len) EXCEPT !.skipped = @ + total_len]]
    ELSE IF f.res = "Panic" THEN RxErr("Panic", st)
    ELSE RxErr(f.res, skip_byte(st))

\* receive after Frame::try_from returned f
receive_frame(st, f, total_len) ==
    IF f.res = "Ok"
    THEN [res |-> "Ok", id |-> f.id, bytes |-> f.bytes, st |-> flush(st, total_len)]
    ELSE IF f.res = "Panic" THEN RxErr("Panic", st)
    ELSE RxErr(f.res, skip_byte(st))

\* receive after peek_bytes(6, data_len, &mut data[0..]) returned p
receive_peeked(st, header, p, N) ==
    IF p.res # "Ok" THEN RxErr(p.res, st)
    ELSE receive_frame(st, Frame_try_from(header, p.bytes, N),
                       total_packet_len(header))

\* receive after rx_header returned header with the queue at st;
\* data is [u8; N]
receive_body(st, header, N) ==
    IF payload_len(header) > N THEN RxErr("TooManyBytes", skip_byte(st))
    ELSE IF Len(st.q) < total_packet_len(header) THEN RxErr("WouldBlock", st)
    ELSE receive_peeked(st, header, peek_bytes(st, 6, data_len(header), N), N)

receive_header(r, N) ==
    IF r.res # "Ok" THEN RxErr(r.res, r.st)
    ELSE receive_body(r.st, [id |-> r.id, length |-> r.length], N)

\* Receiver::receive::<N>: [res, id, bytes, st]
receive(st0, N) == receive_header(rx_header(st0), N)

(***************************************************************************)
(* State                                                                   *)
(***************************************************************************)
VARIABLES
    txq,        \* bytes written to the transmit queue
    capacity,   \* size of the transmit queue
    tx,         \* the last transmit call: [res, id, data, q0]
    parsed,     \* the last Frame::<N>::try_from(&[u8]): [res, id, bytes, N]
    hdr,        \* the last FrameHeader::new: [res, id, length, in_id, in_len]
    rcv,        \* the Receiver: [q, skipped, flushed]
    wire,       \* bytes on the link that have not reached the receive queue
    rx,         \* the receive call that just returned: [res, id, bytes, N, st0]
    sent,       \* what the peer put on the link: [garbage, id, payload, N]
    delivered,  \* number of frames receive has returned
    consumed,   \* sum of total_packet_len() over the frames receive has returned
    cor         \* the byte the link corrupted: [pos, val], pos = 0 for none

vars == << txq, capacity, tx, parsed, hdr, rcv, wire, rx, sent, delivered, consumed,
          cor >>

txVars  == << txq, capacity, tx >>
hdrVars == << hdr >>
rxVars  == << rcv, wire, rx, sent, delivered, consumed, cor >>

(***************************************************************************)
(* Bounds and input sets                                                   *)
(***************************************************************************)
MaxPayloadLen == 33
MaxHeaderPayloadLen == 46300

\* byte i of the payload with the given seed; seed 0 is 0, 1, 2, ...
PayloadByte(seed, i) == (i - 1 + seed * i * i) % 256

Payload(seed, n) == [ i \in 1..n |-> PayloadByte(seed, i) ]

Seeds == {0, 89}

\* 58 is the payload length of tests::transmit_long_packet_works
PayloadLens == (0..MaxPayloadLen) \cup {58, 60, 61, 62}

Payloads == { Payload(s, n) : s \in Seeds, n \in PayloadLens }

PacketIds == {0, 4919, ID_MAX, ID_MAX + 1, 65535}

TxCapacities == {8, 40, 128}

QueuedBefore == { << >>, << 170, 187 >> }

FrameCapacities(n) == {0, n, n + 1, 128}

NoTx     == [res |-> "none", id |-> 0, data |-> << >>, q0 |-> << >>]
NoParsed == [res |-> "none", id |-> 0, bytes |-> << >>, N |-> 0]
NoHdr    == [res |-> "none", id |-> 0, length |-> 0, in_id |-> 0, in_len |-> 0]
NoRcv    == [q |-> << >>, skipped |-> 0, flushed |-> 0]
NoRx     == [res |-> "none", id |-> 0, bytes |-> << >>, N |-> 0, st0 |-> NoRcv]
NoSent   == [garbage |-> << >>, id |-> 0, payload |-> << >>, trailer |-> << >>, N |-> 0]
NoCor    == [pos |-> 0, val |-> 0]

\* the bytes the last transmit call wrote
written == Drop(txq, Len(tx.q0))

(***************************************************************************)
(* Transmit side: one transmit call, then the written bytes are parsed     *)
(***************************************************************************)
TxInit ==
    /\ txq \in QueuedBefore
    /\ capacity \in TxCapacities
    /\ tx = NoTx
    /\ parsed = NoParsed
    /\ hdr = NoHdr
    /\ rcv = NoRcv /\ wire = << >> /\ rx = NoRx /\ sent = NoSent /\ delivered = 0 /\ consumed = 0
    /\ cor = NoCor

Transmit(packet_id, data) ==
    /\ LET r == transmit(txq, capacity, packet_id, data)
       IN  /\ txq' = r.q
           /\ tx' = [res |-> r.res, id |-> packet_id, data |-> data, q0 |-> txq]
    /\ UNCHANGED << capacity, parsed, hdrVars, rxVars >>

ParseWritten(N) ==
    /\ parsed.res = "none"
    /\ LET f == Frame_try_from_slice(written, N)
       IN  parsed' = [res |-> f.res, id |-> f.id, bytes |-> f.bytes, N |-> N]
    /\ UNCHANGED << txVars, hdrVars, rxVars >>

TxNext ==
    \/ /\ tx.res = "none"
       /\ \E packet_id \in PacketIds, data \in Payloads : Transmit(packet_id, data)
    \/ /\ tx.res # "none"
       /\ \E N \in FrameCapacities(Len(tx.data)) : ParseWritten(N)

SpecTx == TxInit /\ [][TxNext]_vars

(***************************************************************************)
(* Header arithmetic: FrameHeader::new on every payload length             *)
(***************************************************************************)
HdrInit ==
    /\ hdr = NoHdr
    /\ txq = << >> /\ capacity = 0 /\ tx = NoTx /\ parsed = NoParsed
    /\ rcv = NoRcv /\ wire = << >> /\ rx = NoRx /\ sent = NoSent /\ delivered = 0 /\ consumed = 0
    /\ cor = NoCor

NewHeader(id, payload_length) ==
    /\ LET h == FrameHeader_new(id, payload_length)
       IN  hdr' = [res |-> h.res, id |-> h.id, length |-> h.length,
                   in_id |-> id, in_len |-> payload_length]
    /\ UNCHANGED << txVars, parsed, rxVars >>

HdrNext ==
    /\ hdr.res = "none"
    /\ \E id \in {4919, ID_MAX + 1}, n \in 0..MaxHeaderPayloadLen : NewHeader(id, n)

SpecHdr == HdrInit /\ [][HdrNext]_vars

(***************************************************************************)
(* Construction: FrameHeader::new on every payload length and on lengths   *)
(* around the overflow guard, then Frame::new and transmit with the same   *)
(* id and a payload of the same length                                     *)
(***************************************************************************)
\* the largest length whose (payload_length + 2) * 8 is below 2^31, the first
\* length the overflow guard refuses, and usize::MAX / 8
GuardLens == {268435453, USIZE_MAX_DIV_8 - 2, USIZE_MAX_DIV_8}

HeaderLens == (0..MaxHeaderPayloadLen) \cup GuardLens

\* payload lengths for which a payload is built
BuiltLens == {0, 1, 3, 30, 46269, 46270, 46271}

NewInit ==
    /\ hdr = NoHdr
    /\ txq = << >> /\ capacity = 128 /\ tx = NoTx /\ parsed = NoParsed
    /\ rcv = NoRcv /\ wire = << >> /\ rx = NoRx /\ sent = NoSent /\ delivered = 0 /\ consumed = 0
    /\ cor = NoCor

\* Frame::<N>::new(id, payload) with the id and the length of the header
NewFrameOf(N) ==
    /\ LET f == Frame_new(hdr.in_id, Payload(0, hdr.in_len), N)
       IN  parsed' = [res |-> f.res, id |-> f.id, bytes |-> f.bytes, N |-> N]
    /\ UNCHANGED << txVars, hdrVars, rxVars >>

NewNext ==
    \/ /\ hdr.res = "none"
       /\ \E id \in {ID_MAX, ID_MAX + 1}, n \in HeaderLens : NewHeader(id, n)
    \/ /\ hdr.res # "none" /\ hdr.in_len \in BuiltLens
       /\ parsed.res = "none"
       /\ \E N \in {0, hdr.in_len, 128} : NewFrameOf(N)
    \/ /\ hdr.res # "none" /\ hdr.in_len \in BuiltLens
       /\ tx.res = "none"
       /\ Transmit(hdr.in_id, Payload(0, hdr.in_len))

SpecNew == NewInit /\ [][NewNext]_vars

(***************************************************************************)
(* Wire bytes: (id, payload) is sent either with transmit or as a          *)
(* Frame<N> made by Frame::new and sent with transmit_frame; parsed holds  *)
(* that frame                                                              *)
(***************************************************************************)
TransmitFrame(packet_id, data, N) ==
    /\ LET f == Frame_new(packet_id, data, N)
           r == transmit_frame(txq, capacity, f)
       IN  /\ parsed' = [res |-> f.res, id |-> f.id, bytes |-> f.bytes, N |-> N]
           /\ IF f.res = "Ok"
              THEN /\ txq' = r.q
                   /\ tx' = [res |-> r.res, id |-> packet_id, data |-> data, q0 |-> txq]
              ELSE UNCHANGED << txq, tx >>
    /\ UNCHANGED << capacity, hdrVars, rxVars >>

WireNext ==
    /\ tx.res = "none"
    /\ parsed.res = "none"
    /\ \/ \E packet_id \in PacketIds, data \in Payloads : Transmit(packet_id, data)
       \/ \E packet_id \in PacketIds, data \in Payloads :
             \E N \in FrameCapacities(Len(data)) : TransmitFrame(packet_id, data, N)

SpecWire == TxInit /\ [][WireNext]_vars

(***************************************************************************)
(* Transmit attempts that are refused: ids and payload lengths around the  *)
(* largest ones a header can carry, queues with little or no room          *)
(***************************************************************************)
\* the largest payload length FrameHeader::new accepts is 46269
RejectLens == {0, 1, 3, 46269, 46270}

RejectPayloads == { Payload(0, n) : n \in RejectLens }

RejectCapacities == {0, 2, 5, 6, 7, 8, 16, 128}

RejectInit ==
    /\ txq \in QueuedBefore
    /\ capacity \in RejectCapacities
    /\ capacity >= Len(txq)
    /\ tx = NoTx
    /\ parsed = NoParsed
    /\ hdr = NoHdr
    /\ rcv = NoRcv /\ wire = << >> /\ rx = NoRx /\ sent = NoSent /\ delivered = 0 /\ consumed = 0
    /\ cor = NoCor

RejectNext ==
    /\ tx.res = "none"
    /\ \E packet_id \in PacketIds, data \in RejectPayloads : Transmit(packet_id, data)

SpecTxReject == RejectInit /\ [][RejectNext]_vars

(***************************************************************************)
(* Header parsing: FrameHeader::try_from on 6 bytes, each field at and     *)
(* around its limits.  wire holds the bytes that were parsed.              *)
(***************************************************************************)
MarkerBytes == {START_OF_FRAME, END_OF_HEADER, 0, 240}

\* 0xF0FF is FF F0 and 0xF100 is 00 F1 on the wire
LowBytes == {0, 55, 255}

HighBytes == {0, 19, 240, 241, 255}

HeaderSlices ==
    { << b0, id_lo, id_hi, len_lo, len_hi, b5 >> :
        b0 \in MarkerBytes, id_lo \in LowBytes, id_hi \in HighBytes,
        len_lo \in LowBytes, len_hi \in HighBytes, b5 \in MarkerBytes }

ParseHeader(slice) ==
    /\ LET h == FrameHeader_try_from(slice)
       IN  hdr' = [res |-> h.res, id |-> h.id, length |-> h.length,
                   in_id |-> 0, in_len |-> 0]
    /\ wire' = slice
    /\ UNCHANGED << txVars, parsed, rcv, rx, sent, delivered, consumed, cor >>

ParseHdrNext ==
    /\ hdr.res = "none"
    /\ \E slice \in HeaderSlices : ParseHeader(slice)

SpecParseHdr == HdrInit /\ [][ParseHdrNext]_vars

(***************************************************************************)
(* Receive side: the peer's bytes arrive one at a time and the receiver is *)
(* polled with receive::<N>() at any moment                                *)
(***************************************************************************)
MaxGarbage == 11
MaxRxPayloadLen == 3

\* the frame of the receiver tests without its start marker
Junk == << 55, 19, 7, 0, 255, 65, 65, 69, 67, 68, 109, 52 >>

\* runs without a start marker
NonMarkerRuns == { Take(Junk, k) : k \in 0..MaxGarbage }

\* tests::receive_skip_any_works: a start marker in front of a broken frame
MarkerRuns == { << START_OF_FRAME >> \o Drop(Junk, k) : k \in {1, 7, 12} }

\* a well-formed header that announces 32 symbols
FakeHeader == << START_OF_FRAME, 0, 0, 32, 0, END_OF_HEADER >>

\* well-formed start and end markers around bad fields or in front of bad
\* data: an id and a length of 0xF100, "AAAA" (CRC mismatch), "AA" (one byte,
\* no room for a CRC), and a header whose 4 symbols are the next frame's
\* first bytes
BadFrames ==
    { << START_OF_FRAME, 0, 241, 0, 0, END_OF_HEADER >>,
      << START_OF_FRAME, 0, 0, 0, 241, END_OF_HEADER >>,
      << START_OF_FRAME, 0, 0, 4, 0, END_OF_HEADER, 65, 65, 65, 65 >>,
      << START_OF_FRAME, 0, 0, 2, 0, END_OF_HEADER, 65, 65 >>,
      << START_OF_FRAME, 0, 0, 4, 0, END_OF_HEADER >> }

\* frames in front of the one that is sent: the empty frame of id 1 behind a
\* stray byte, and an empty frame sent as "AAA", the CRC of no bytes
EarlierFrames ==
    { << 7, START_OF_FRAME, 1, 0, 0, 0, END_OF_HEADER >>,
      << START_OF_FRAME, 0, 0, 3, 0, END_OF_HEADER, 65, 65, 65 >> }

GarbageRuns ==
    NonMarkerRuns \cup MarkerRuns \cup { FakeHeader } \cup BadFrames \cup EarlierFrames

RxFrames ==
    { [id |-> 4919, payload |-> Payload(0, n)] : n \in 0..MaxRxPayloadLen }
        \cup { [id |-> ID_MAX, payload |-> << 128 >>] }

RxCapacities(n) == {0, 2, n, 128}

Trailers == { << >>, << START_OF_FRAME >> }

\* the bytes the peer's transmit writes for (id, payload)
WireFrame(id, payload) == transmit(<< >>, 65535, id, payload).q

SentFrame == WireFrame(sent.id, sent.payload)

RxScenarios ==
    UNION { { [garbage |-> g, id |-> f.id, payload |-> f.payload,
               trailer |-> t, N |-> N] :
                 g \in GarbageRuns, t \in Trailers, N \in RxCapacities(Len(f.payload)) } :
            f \in RxFrames }

RxInit ==
    /\ sent \in RxScenarios
    /\ wire = sent.garbage \o SentFrame \o sent.trailer
    /\ rcv = NoRcv
    /\ rx = NoRx
    /\ delivered = 0 /\ consumed = 0
    /\ parsed = NoParsed
    /\ cor = NoCor
    /\ txq = << >> /\ capacity = 0 /\ tx = NoTx /\ hdr = NoHdr

\* total_packet_len() of the header of the frame that receive returns from st0
returned_packet_len(st0) ==
    total_packet_len([id |-> rx_header(st0).id, length |-> rx_header(st0).length])

\* one more byte reaches the receive queue
Arrive ==
    /\ wire # << >>
    /\ rx.res # "Panic"
    /\ rcv' = [rcv EXCEPT !.q = Append(@, Head(wire))]
    /\ wire' = Tail(wire)
    /\ rx' = NoRx
    /\ UNCHANGED << sent, delivered, consumed, cor, parsed, txVars, hdrVars >>

Receive ==
    /\ rx.res # "Panic"
    /\ LET r == receive(rcv, sent.N)
       IN  /\ rcv' = r.st
           /\ rx' = [res |-> r.res, id |-> r.id, bytes |-> r.bytes,
                     N |-> sent.N, st0 |-> rcv]
           /\ delivered' = IF r.res = "Ok" THEN delivered + 1 ELSE delivered
           /\ consumed' = IF r.res = "Ok" THEN consumed + returned_packet_len(rcv)
                          ELSE consumed
    /\ UNCHANGED << wire, sent, cor, parsed, txVars, hdrVars >>

\* host side: the complete frame is parsed from a buffer
ParseSent ==
    /\ parsed.res = "none"
    /\ rcv = NoRcv
    /\ LET f == Frame_try_from_slice(SentFrame, sent.N)
       IN  parsed' = [res |-> f.res, id |-> f.id, bytes |-> f.bytes, N |-> sent.N]
    /\ UNCHANGED << rcv, wire, rx, sent, delivered, consumed, cor, txVars, hdrVars >>

RxNext == Arrive \/ Receive \/ ParseSent

SpecRx == RxInit /\ [][RxNext]_vars

(***************************************************************************)
(* Frame construction: the same (id, payload) is made into a Frame<N> by   *)
(* Frame::new, by parsing its wire bytes from a buffer, and by the         *)
(* receiver, for capacities N below, at and above the payload length       *)
(***************************************************************************)
MaxFramePayloadLen == 5

NewCapacities(n) == {0, n + 1, n + 2, 128} \cup { m \in {n - 1, n} : m >= 0 }

FrameScenarios ==
    UNION { { [garbage |-> << >>, id |-> id, payload |-> Payload(0, n),
               trailer |-> << >>, N |-> N] :
                 id \in {4919, ID_MAX}, N \in NewCapacities(n) } :
            n \in 0..MaxFramePayloadLen }

FrameInit ==
    /\ sent \in FrameScenarios
    /\ wire = SentFrame
    /\ rcv = NoRcv
    /\ rx = NoRx
    /\ delivered = 0 /\ consumed = 0
    /\ parsed = NoParsed
    /\ cor = NoCor
    /\ txq = << >> /\ capacity = 0 /\ tx = NoTx /\ hdr = NoHdr

\* host side: Frame::<N>::new(id, payload)
NewFrame ==
    /\ parsed.res = "none"
    /\ rcv = NoRcv
    /\ LET f == Frame_new(sent.id, sent.payload, sent.N)
       IN  parsed' = [res |-> f.res, id |-> f.id, bytes |-> f.bytes, N |-> sent.N]
    /\ UNCHANGED << rcv, wire, rx, sent, delivered, consumed, cor, txVars, hdrVars >>

FrameNext == NewFrame \/ ParseSent \/ Arrive \/ Receive

SpecFrame == FrameInit /\ [][FrameNext]_vars

(***************************************************************************)
(* Frame decoding: Frame::try_from((header, b64_data)) for every length    *)
(* field up to MaxDataLen and data of exactly that many bytes: the symbols *)
(* of a real frame or a run of 'A', with up to two bytes replaced.  hdr is *)
(* the header, wire the data.                                              *)
(***************************************************************************)
MaxDataLen == 17

\* '=', '/', a byte outside the alphabet, 'B'
SubstBytes == {PAD, 47, START_OF_FRAME, 66}

\* the symbols transmit writes for a payload whose frame has b64_len symbols,
\* if there is one, else 'A' b64_len times
CanonicalData(b64_len) ==
    LET n == payload_len([id |-> 0, length |-> b64_len])
    IN  IF n >= 1 /\ encoded_size(n + 2) = b64_len
        THEN Drop(WireFrame(0, Payload(0, n)), 6)
        ELSE [ i \in 1..b64_len |-> 65 ]

DataBases(b64_len) == { [ i \in 1..b64_len |-> 65 ], CanonicalData(b64_len) }

Replaced(base) ==
    { base }
        \cup { [base EXCEPT ![p] = c] : p \in 1..Len(base), c \in SubstBytes }
        \cup UNION { { [base EXCEPT ![p] = c, ![q] = d] : c \in SubstBytes, d \in SubstBytes } :
                      p \in 1..Len(base), q \in 1..Len(base) }

DecodeInit ==
    /\ \E b64_len \in 1..MaxDataLen :
         /\ hdr = [res |-> "Ok", id |-> 4919, length |-> b64_len, in_id |-> 0, in_len |-> 0]
         /\ \E base \in DataBases(b64_len) : wire \in Replaced(base)
    /\ parsed = NoParsed
    /\ txq = << >> /\ capacity = 0 /\ tx = NoTx
    /\ rcv = NoRcv /\ rx = NoRx /\ sent = NoSent /\ delivered = 0 /\ consumed = 0
    /\ cor = NoCor

DecodeFrame(N) ==
    /\ LET f == Frame_try_from([id |-> hdr.id, length |-> hdr.length], wire, N)
       IN  parsed' = [res |-> f.res, id |-> f.id, bytes |-> f.bytes, N |-> N]
    /\ UNCHANGED << txVars, hdrVars, rcv, wire, rx, sent, delivered, consumed, cor >>

DecodeNext ==
    /\ parsed.res = "none"
    /\ \E N \in {payload_len([id |-> hdr.id, length |-> hdr.length]), 128} : DecodeFrame(N)

SpecDecode == DecodeInit /\ [][DecodeNext]_vars

(***************************************************************************)
(* Slices of every length: FrameHeader::try_from(&[u8]),                   *)
(* Frame::<N>::try_from(&[u8]) and Frame::<N>::try_from((header, data))    *)
(* on slices that are shorter or longer than what is expected.  wire is    *)
(* the slice: the beginning of a frame, a whole frame, or a frame with     *)
(* bytes behind it; the data paired with a header are its bytes from 6 on. *)
(***************************************************************************)
MaxSlicePayloadLen == 3
MaxExtraBytes == 2

SliceBases ==
    { WireFrame(id, Payload(0, n)) \o [ i \in 1..MaxExtraBytes |-> 65 ] :
        id \in {4919, ID_MAX}, n \in 0..MaxSlicePayloadLen }

SliceInputs == UNION { { Take(b, k) : k \in 0..Len(b) } : b \in SliceBases }

\* length fields of the header that is paired with the slice
SliceDataLens == {0, 3, 4, 7, 8}

SliceCapacities(n) == {0, n, 128}

SliceInit ==
    /\ wire \in SliceInputs
    /\ hdr = NoHdr
    /\ parsed = NoParsed
    /\ txq = << >> /\ capacity = 0 /\ tx = NoTx
    /\ rcv = NoRcv /\ rx = NoRx /\ sent = NoSent /\ delivered = 0 /\ consumed = 0
    /\ cor = NoCor

\* FrameHeader::try_from(&wire[..])
ParseHeaderSlice ==
    /\ LET h == FrameHeader_try_from(wire)
       IN  hdr' = [res |-> h.res, id |-> h.id, length |-> h.length,
                   in_id |-> 0, in_len |-> 0]
    /\ UNCHANGED << txVars, parsed, rxVars >>

\* Frame::<N>::try_from(&wire[..])
ParseSlice(N) ==
    /\ LET f == Frame_try_from_slice(wire, N)
       IN  parsed' = [res |-> f.res, id |-> f.id, bytes |-> f.bytes, N |-> N]
    /\ UNCHANGED << txVars, hdrVars, rxVars >>

\* the bytes behind the first 6 of the slice
SliceData == Drop(wire, 6)

\* Frame::<N>::try_from((header, &wire[6..])) with a header of the given
\* length
DecodeSlice(length, N) ==
    /\ Len(wire) >= 6
    /\ hdr' = [res |-> "Ok", id |-> 4919, length |-> length, in_id |-> 0, in_len |-> 0]
    /\ LET f == Frame_try_from([id |-> 4919, length |-> length], SliceData, N)
       IN  parsed' = [res |-> f.res, id |-> f.id, bytes |-> f.bytes, N |-> N]
    /\ UNCHANGED << txVars, rxVars >>

SliceNext ==
    /\ hdr.res = "none"
    /\ parsed.res = "none"
    /\ \/ ParseHeaderSlice
       \/ \E N \in SliceCapacities(MaxSlicePayloadLen) : ParseSlice(N)
       \/ \E length \in SliceDataLens :
             \E N \in SliceCapacities(payload_len([id |-> 4919, length |-> length])) :
                DecodeSlice(length, N)

SpecSlice == SliceInit /\ [][SliceNext]_vars

(***************************************************************************)
(* Corruption: one byte of the base64 section of a frame is replaced on    *)
(* the link and the result is parsed                                       *)
(***************************************************************************)
MaxCorruptLen == 10

CorruptInit ==
    /\ \E s \in {0, 128}, n \in 1..MaxCorruptLen, N \in {0, 128} :
         sent = [garbage |-> << >>, id |-> 4919, payload |-> Payload(s, n),
                 trailer |-> << >>, N |-> IF N = 0 THEN n ELSE N]
    /\ wire = SentFrame
    /\ cor = NoCor
    /\ parsed = NoParsed
    /\ rcv = NoRcv /\ rx = NoRx /\ delivered = 0 /\ consumed = 0
    /\ txq = << >> /\ capacity = 0 /\ tx = NoTx /\ hdr = NoHdr

Corrupt(pos, val) ==
    /\ wire[pos] # val
    /\ cor' = [pos |-> pos, val |-> val]
    /\ LET f == Frame_try_from_slice([wire EXCEPT ![pos] = val], sent.N)
       IN  parsed' = [res |-> f.res, id |-> f.id, bytes |-> f.bytes, N |-> sent.N]
    /\ UNCHANGED << rcv, wire, rx, sent, delivered, consumed, txVars, hdrVars >>

CorruptNext ==
    /\ cor.pos = 0
    /\ \E pos \in 7..Len(wire), val \in 0..255 : Corrupt(pos, val)

SpecCorrupt == CorruptInit /\ [][CorruptNext]_vars

(***************************************************************************)
(* Claims                                                                  *)
(***************************************************************************)

\* q begins with all of f
StartsWith(q, f) == Len(q) >= Len(f) /\ SubSeq(q, 1, Len(f)) = f

\* q is the beginning of f, with bytes of f still missing
StrictPrefix(q, f) == Len(q) < Len(f) /\ SubSeq(f, 1, Len(q)) = q

NoMarker(g) == \A i \in 1..Len(g) : g[i] # 241

\* a receive call has just returned
Called == rx.res # "none"

\* the frame on the link fits the capacity the receiver is polled with
FitsN == sent.N >= Len(sent.payload)

\* the call returned the frame that was sent
GotSentFrame == rx.res = "Ok" /\ rx.id = sent.id /\ rx.bytes = sent.payload

\* C1 (as claimed): round trip.  Every transmit of an id <= 0xF0FF that does
\* not block for queue space returns Ok, and parsing the bytes it wrote as a
\* Frame<N> with N above the payload length gives back the id and the payload.
C1_RoundTrip ==
    (tx.res \notin {"none", "WouldBlock"} /\ tx.id <= 61695) =>
        /\ tx.res = "Ok"
        /\ (parsed.res # "none" /\ parsed.N > Len(tx.data)) =>
               /\ parsed.res = "Ok"
               /\ parsed.id = tx.id
               /\ parsed.bytes = tx.data

\* C3 (as claimed): a transmit that passes the header and space checks writes
\* exactly 6 + length bytes, length being the length field it put in the
\* header, and never reports QueueOverflow.
C3_BurstLength ==
    (tx.res \notin {"none", "WouldBlock", "InvalidID", "InvalidLength"}) =>
        /\ tx.res # "QueueOverflow"
        /\ Len(written) >= 6
        /\ Len(written) = 6 + written[4] + 256 * written[5]

\* C4: length inversion.  Whenever FrameHeader::new(id, payload_length)
\* succeeds, payload_len() of the header is payload_length.
C4_LengthInversion ==
    hdr.res = "Ok" =>
        payload_len([id |-> hdr.id, length |-> hdr.length]) = hdr.in_len

\* C4 witness: the largest payload length that has a header (length 0xF0FF)
C4_Witness ==
    hdr.res = "Ok" /\ hdr.length = 61695 /\ hdr.in_len = 46269

\* C10: zero-length special case.  transmit(id, empty) with a valid id and
\* room for 6 bytes writes the 6 header bytes with length field 0 and nothing
\* else, and those bytes parse as a frame with that id and no payload for
\* every N, N = 0 included.
C10_ZeroLength ==
    (tx.res # "none" /\ tx.data = << >> /\ tx.id <= 61695
        /\ capacity - Len(tx.q0) >= 6) =>
        /\ tx.res = "Ok"
        /\ written = << 241, tx.id % 256, tx.id \div 256, 0, 0, 255 >>
        /\ parsed.res # "none" =>
               (parsed.res = "Ok" /\ parsed.id = tx.id /\ parsed.bytes = << >>)

\* C10 witness: an empty payload sent and parsed into a Frame<0>
C10_Witness ==
    /\ tx.res = "Ok" /\ tx.data = << >> /\ Len(written) = 6
    /\ parsed.res = "Ok" /\ parsed.N = 0

\* C2 (as claimed): when the front of the receive queue is the complete wire
\* frame of (id, payload) and N >= payload.len(), one receive::<N>() returns
\* that frame, advances the queue by exactly 6 + length bytes and leaves
\* bytes_skipped alone.
C2_ReceiveFront ==
    (Called /\ StartsWith(rx.st0.q, SentFrame) /\ FitsN) =>
        /\ GotSentFrame
        /\ rcv.flushed = rx.st0.flushed + Len(SentFrame)
        /\ rcv.skipped = rx.st0.skipped

\* C5 (as claimed): with k <= 11 bytes without a start marker in front of a
\* complete frame that fits N, the receive call that finds the frame complete
\* returns it, and then bytes_skipped = k and the queue has advanced by
\* k + total_packet_len.
C5_Resync ==
    (/\ Called /\ FitsN
     /\ NoMarker(sent.garbage) /\ Len(sent.garbage) <= 11
     /\ rx.st0.flushed <= Len(sent.garbage)
     /\ rx.st0.flushed + Len(rx.st0.q) >= Len(sent.garbage) + Len(SentFrame)) =>
        /\ GotSentFrame
        /\ rcv.skipped = Len(sent.garbage)
        /\ rcv.flushed = Len(sent.garbage) + Len(SentFrame)

\* C6 (as claimed): with any garbage in front of a complete frame that fits N
\* and every byte in the queue, polling reaches the frame: no call made while
\* the frame is still in the queue blocks or aborts, and the call that
\* consumes bytes of the frame returns it.
C6_Survivable ==
    (/\ Called /\ FitsN
     /\ wire = << >>
     /\ rx.st0.flushed <= Len(sent.garbage)) =>
        /\ rx.res \notin {"WouldBlock", "Panic"}
        /\ rcv.flushed > Len(sent.garbage) =>
               (GotSentFrame /\ rcv.flushed = Len(sent.garbage) + Len(SentFrame))

\* C7: capacity rejection.  A receive::<N>() that finds a well-formed header
\* with payload_len() > N at the queue front returns TooManyBytes, flushes
\* exactly one byte and counts exactly one skipped byte, however many data
\* bytes are there; parsing the complete frame into a Frame<N> with N below
\* the payload length is TooManyBytes as well.
C7_CapacityRejection ==
    /\ (/\ Called
        /\ Len(rx.st0.q) >= 6
        /\ FrameHeader_try_from(Take(rx.st0.q, 6)).res = "Ok"
        /\ payload_len(FrameHeader_try_from(Take(rx.st0.q, 6))) > rx.N) =>
           /\ rx.res = "TooManyBytes"
           /\ rcv.flushed = rx.st0.flushed + 1
           /\ rcv.skipped = rx.st0.skipped + 1
           /\ rcv.q = Tail(rx.st0.q)
    /\ (parsed.res # "none" /\ parsed.N < Len(sent.payload)) =>
           parsed.res = "TooManyBytes"

\* C7 witness: the header alone has arrived, the frame is too long for N, and
\* the same frame was refused when parsed from a buffer
C7_Witness ==
    /\ rx.res = "TooManyBytes"
    /\ Len(rx.st0.q) = 6 /\ rx.st0.q[1] = 241
    /\ rcv.skipped = rx.st0.skipped + 1
    /\ parsed.res = "TooManyBytes"

\* C8 (as claimed): partial arrival.  With only the beginning of a frame that
\* fits N in the queue, receive returns WouldBlock and moves neither the read
\* cursor nor bytes_skipped; with the whole frame there it returns the frame.
C8_PartialArrival ==
    (Called /\ FitsN) =>
        /\ (rx.st0.q # << >> /\ StrictPrefix(rx.st0.q, SentFrame)) =>
               /\ rx.res = "WouldBlock"
               /\ rcv.flushed = rx.st0.flushed
               /\ rcv.skipped = rx.st0.skipped
        /\ StartsWith(rx.st0.q, SentFrame) =>
               (GotSentFrame /\ rcv.flushed = rx.st0.flushed + Len(SentFrame))

\* C9 (as claimed): replacing one byte of the base64 section of a valid frame
\* with another value makes frame decoding fail with InvalidCRC or
\* InvalidBase64.
C9_CorruptionDetected ==
    cor.pos # 0 => parsed.res \in {"InvalidCRC", "InvalidBase64"}

\* C11: a transmit attempt that fails before the write burst leaves the
\* transmit queue alone.  When the header cannot be built (id above 0xF0FF or
\* payload longer than 46269 bytes) the call returns InvalidID or
\* InvalidLength; when the header can be built and the free space is below
\* 6 + length it returns WouldBlock; and every call that returns one of these
\* three has written nothing.
C11_NoSideEffect ==
    tx.res # "none" =>
        /\ (tx.id > 61695 \/ Len(tx.data) > 46269) =>
               (tx.res \in {"InvalidID", "InvalidLength"} /\ txq = tx.q0)
        /\ (/\ tx.id <= 61695 /\ Len(tx.data) <= 46269
            /\ capacity - Len(tx.q0)
                   < total_packet_len(FrameHeader_new(tx.id, Len(tx.data)))) =>
               (tx.res = "WouldBlock" /\ txq = tx.q0)
        /\ tx.res \in {"InvalidID", "InvalidLength", "WouldBlock"} => txq = tx.q0

\* C11 witness: the largest frame finds a queue that holds two bytes and has
\* room for the header but not for the frame
C11_Witness ==
    /\ tx.res = "WouldBlock" /\ Len(tx.data) = 46269
    /\ tx.q0 = << 170, 187 >> /\ capacity = 128 /\ txq = tx.q0

\* C12: header parsing from 6 bytes.  A wrong start marker (byte 0 is not
\* 0xF1) or end marker (byte 5 is not 0xFF) is InvalidHeader; with both
\* markers right, an id (bytes 1-2, little-endian) above 0xF0FF is InvalidID;
\* with markers and id right, a length (bytes 3-4, little-endian) above 0xF0FF
\* is InvalidLength; otherwise parsing succeeds and gives exactly the encoded
\* id and length.  So it succeeds exactly when all four conditions hold.
C12_HeaderParse ==
    (hdr.res # "none" /\ Len(wire) = 6) =>
        LET markers == wire[1] = 241 /\ wire[6] = 255
            id      == wire[2] + 256 * wire[3]
            length  == wire[4] + 256 * wire[5]
        IN  /\ hdr.res = "Ok" <=> (markers /\ id <= 61695 /\ length <= 61695)
            /\ ~markers => hdr.res = "InvalidHeader"
            /\ (markers /\ id > 61695) => hdr.res = "InvalidID"
            /\ (markers /\ id <= 61695 /\ length > 61695) => hdr.res = "InvalidLength"
            /\ hdr.res = "Ok" => (hdr.id = id /\ hdr.length = length)

\* C12 witness: F1 FF F0 FF F0 FF, id and length both 0xF0FF, is parsed
C12_Witness ==
    /\ wire = << 241, 255, 240, 255, 240, 255 >>
    /\ hdr.res = "Ok" /\ hdr.id = 61695 /\ hdr.length = 61695

\* C13 (as claimed): frame capacity invariant.  Every frame that Frame::new,
\* parsing a byte buffer (and with it construction from header + encoded
\* bytes) or Receiver::receive produces has payload_len() <= N, bytes() being
\* those payload_len() bytes; and when the payload is longer than N the
\* construction is refused: the constructor returns an error, it neither
\* produces a frame nor aborts.
C13_CapacityInvariant ==
    /\ parsed.res = "Ok" => Len(parsed.bytes) <= parsed.N
    /\ rx.res = "Ok" => Len(rx.bytes) <= rx.N
    /\ (parsed.res # "none" /\ Len(sent.payload) > parsed.N) =>
           parsed.res \notin {"Ok", "Panic"}
    /\ (Called /\ Len(sent.payload) > rx.N) => rx.res \notin {"Ok", "Panic"}

\* the unpadded standard base64 encoding of payload followed by the two
\* little-endian CRC-16/USB bytes of the payload
EncodedSection(payload) ==
    encode_config_slice(payload \o to_le_bytes(checksum(payload)))

\* F1, id low, id high, length low, length high, FF, then the characters
WireLayout(id, chars) ==
    << 241, id % 256, id \div 256, Len(chars) % 256, Len(chars) \div 256, 255 >>
        \o chars

\* C14 (as claimed): the bytes a successful transmit(id, payload) writes are
\* the header F1 id_lo id_hi len_lo len_hi FF followed by exactly length
\* characters, the base64 encoding of payload followed by its CRC, for every
\* payload; and transmit_frame of the frame made from (id, payload) writes
\* the same bytes.
C14_WireLayoutAsClaimed ==
    tx.res = "Ok" =>
        /\ written = WireLayout(tx.id, EncodedSection(tx.data))
        /\ parsed.res = "Ok" => (parsed.id = tx.id /\ parsed.bytes = tx.data)

\* C14 (amended): the bytes a successful transmit(id, payload) with a
\* non-empty payload writes are F1 id_lo id_hi len_lo len_hi FF followed by
\* exactly length characters, the unpadded standard base64 encoding of
\* payload followed by its 2 little-endian CRC-16/USB bytes; an empty payload
\* writes the header with length 0 and no characters.  (0x1337, [0,1,2])
\* gives F1 37 13 07 00 FF 41 41 45 43 44 6D 34, and transmit_frame of the
\* frame made from (id, payload) writes the same bytes as transmit.
C14_WireLayout ==
    tx.res = "Ok" =>
        /\ tx.data # << >> => written = WireLayout(tx.id, EncodedSection(tx.data))
        /\ tx.data = << >> => written = WireLayout(tx.id, << >>)
        /\ (tx.id = 4919 /\ tx.data = << 0, 1, 2 >>) =>
               written = << 241, 55, 19, 7, 0, 255, 65, 65, 69, 67, 68, 109, 52 >>
        /\ parsed.res = "Ok" => (parsed.id = tx.id /\ parsed.bytes = tx.data)

\* C14 witness: a 62-byte payload, three blocks, sent as a frame with
\* transmit_frame
C14_Witness ==
    /\ tx.res = "Ok" /\ Len(tx.data) = 62 /\ parsed.res = "Ok"
    /\ Len(written) = 6 + 86

\* C15: a receive call that returns WouldBlock removes only bytes in front of
\* the first start marker.  The k bytes it removed are the first k bytes of
\* the queue, none of them is 0xF1, the rest of the queue (the first start
\* marker and everything behind it) is still there, and bytes_skipped grew
\* by exactly k.
C15_WouldBlockEffect ==
    rx.res = "WouldBlock" =>
        LET k == rcv.flushed - rx.st0.flushed
        IN  /\ k >= 0 /\ k <= Len(rx.st0.q)
            /\ \A i \in 1..k : rx.st0.q[i] # 241
            /\ rcv.q = Drop(rx.st0.q, k)
            /\ rcv.skipped = rx.st0.skipped + k

\* C15 witness: the call skipped garbage and then blocked on a start marker
\* with an incomplete frame behind it, which it kept
C15_Witness ==
    /\ rx.res = "WouldBlock"
    /\ rcv.flushed >= rx.st0.flushed + 2
    /\ Len(rcv.q) >= 6 /\ rcv.q[1] = 241
    /\ rcv.skipped = rx.st0.skipped + (rcv.flushed - rx.st0.flushed)

\* C16: every hard error that receive::<N>() returns (InvalidHeader,
\* InvalidID, InvalidLength, TooManyBytes, InvalidCRC, InvalidBase64,
\* TooFewBytes) comes with the discard of exactly one byte beyond the
\* non-marker bytes skipped while hunting: of the k + 1 bytes the call
\* removed, the first k are not 0xF1, the last is the 0xF1 that was at the
\* queue front when the header was examined, and all k + 1 are counted in
\* bytes_skipped.
C16_ErrorDiscardsOne ==
    rx.res \notin {"none", "Ok", "WouldBlock", "Panic"} =>
        LET k == rcv.flushed - rx.st0.flushed - 1
        IN  /\ k >= 0 /\ k < Len(rx.st0.q)
            /\ \A i \in 1..k : rx.st0.q[i] # 241
            /\ rx.st0.q[k + 1] = 241
            /\ rcv.q = Drop(rx.st0.q, k + 1)
            /\ rcv.skipped = rx.st0.skipped + k + 1

\* C16 witness: a frame with a wrong CRC behind skipped garbage is refused
\* and its start marker discarded
C16_Witness ==
    /\ rx.res = "InvalidCRC"
    /\ rx.st0.q[1] = 241
    /\ rcv.q = Tail(rx.st0.q)
    /\ rcv.skipped = rx.st0.skipped + 1

\* C17: bytes_skipped accounting.  Over every sequence of receive calls and
\* byte arrivals bytes_skipped never decreases, and the number of bytes
\* flushed from the queue is bytes_skipped plus the sum of total_packet_len
\* over the frames returned so far: every discarded byte is counted, no byte
\* of a returned frame is.
C17_SkippedAccounting ==
    [][ /\ rcv'.skipped >= rcv.skipped
        /\ rcv'.flushed = rcv'.skipped + consumed' ]_vars

\* C17 witness: one byte was skipped and two frames were returned, the empty
\* frame that came first and the frame that was sent
C17_Witness ==
    /\ delivered = 2 /\ rcv.skipped = 1
    /\ consumed = 6 + Len(SentFrame)
    /\ rcv.flushed = 1 + 6 + Len(SentFrame)

\* the raw bytes of all chunks, in order
RECURSIVE ChunkBytes(_)
ChunkBytes(chunks) ==
    IF chunks = << >> THEN << >>
    ELSE Head(chunks).input \o ChunkBytes(Tail(chunks))

\* C18 (as claimed): transmit chunking.  For every non-empty payload that
\* passes the header and space checks, the chunks the block loop encodes are
\* consecutive pieces of the payload that make up the payload exactly, every
\* chunk but the last has exactly 30 bytes and no CRC, the last chunk has 1
\* to 30 bytes and is the only one that gets the 2 CRC bytes, so the buffer
\* encoded for it has at most 32 bytes.
C18_Chunking ==
    (tx.res \notin {"none", "WouldBlock", "InvalidID", "InvalidLength"}
        /\ tx.data # << >>) =>
        LET chunks == block_inputs(tx.data, 0)
            n      == Len(chunks)
        IN  /\ n >= 1
            /\ \A i \in 1..(n - 1) : Len(chunks[i].input) = 30 /\ ~chunks[i].crc
            /\ chunks[n].crc
            /\ Len(chunks[n].input) >= 1 /\ Len(chunks[n].input) <= 30
            /\ Len(chunks[n].input) + 2 <= 32
            /\ ChunkBytes(chunks) = tx.data

\* what the two decode_config_slice calls of the last Frame::try_from did
BulkDecoded == decode_config_slice(Take(wire, split_offset(hdr.length)))

TailDecoded == decode_config_slice(Drop(wire, split_offset(hdr.length)))

\* C19: decode split bounds.  For every header with data_len() > 0 the split
\* offset is 0 when data_len() < 8 and else data_len() - 4 rounded down to a
\* multiple of 4; it is a multiple of 4; the tail from the split to the end
\* has at most 7 symbols, and 4 to 7 when data_len() >= 8, and decodes to at
\* most 8 bytes; the bulk in front of the split decodes to at most
\* payload_len() bytes, and bulk plus tail without the CRC never come to more
\* than payload_len() <= N bytes.
C19_SplitBounds ==
    (parsed.res \notin {"none", "TooManyBytes"} /\ hdr.length > 0) =>
        LET b64_len == hdr.length
            split   == split_offset(b64_len)
            plen    == payload_len([id |-> hdr.id, length |-> hdr.length])
        IN  /\ split = IF b64_len < 8 THEN 0 ELSE (b64_len - 4) - ((b64_len - 4) % 4)
            /\ split % 4 = 0
            /\ b64_len - split <= 7
            /\ b64_len >= 8 => b64_len - split >= 4
            /\ TailDecoded.ok => Len(TailDecoded.bytes) <= 8
            /\ BulkDecoded.ok => Len(BulkDecoded.bytes) <= plen
            /\ (BulkDecoded.ok /\ TailDecoded.ok /\ Len(TailDecoded.bytes) >= 2) =>
                   Len(BulkDecoded.bytes) + Len(TailDecoded.bytes) - 2 <= plen
            /\ plen <= parsed.N

\* C19 witness: a frame of 6 payload bytes, 11 symbols, split at 4 with a
\* tail of 7, decoded into a Frame<6>
C19_Witness ==
    /\ parsed.res = "Ok" /\ hdr.length = 11 /\ parsed.N = 6
    /\ Len(parsed.bytes) = 6
    /\ Len(BulkDecoded.bytes) = 3 /\ Len(TailDecoded.bytes) = 5

\* C20 (as claimed): the consistency check of frame decoding never fails.
\* For every valid header and every data of exactly data_len() bytes whose
\* bulk and tail both decode, the tail to at least 2 bytes, the bulk bytes
\* plus the tail bytes without the 2 CRC bytes are payload_len() bytes; bad
\* data comes back as an Error value and never as a failed assertion.
C20_AssertNeverFails ==
    (parsed.res # "none" /\ hdr.length > 0) =>
        /\ (BulkDecoded.ok /\ TailDecoded.ok /\ Len(TailDecoded.bytes) >= 2) =>
               Len(BulkDecoded.bytes) + Len(TailDecoded.bytes) - 2
                   = payload_len([id |-> hdr.id, length |-> hdr.length])
        /\ parsed.res # "Panic"

\* FrameHeader::try_from was just applied to the slice
HeaderParsed == hdr.res # "none" /\ parsed.res = "none"

\* Frame::try_from((header, data)) was just applied to hdr and the slice, and
\* N was large enough for the header
DataDecoded ==
    /\ hdr.res = "Ok" /\ parsed.res # "none"
    /\ parsed.N >= payload_len([id |-> hdr.id, length |-> hdr.length])

\* C21 (as claimed): length errors.  Parsing a FrameHeader from a slice that
\* is shorter than 6 bytes fails with TooFewBytes and from a slice that is
\* longer than 6 bytes with TooManyBytes; constructing a frame from a header
\* and encoded bytes (N large enough for the header) fails with TooFewBytes
\* when fewer than data_len() bytes are supplied and with TooManyBytes when
\* more are supplied.
C21_LengthErrors ==
    /\ HeaderParsed =>
           /\ Len(wire) < 6 => hdr.res = "TooFewBytes"
           /\ Len(wire) > 6 => hdr.res = "TooManyBytes"
    /\ DataDecoded =>
           /\ Len(SliceData) < hdr.length => parsed.res = "TooFewBytes"
           /\ Len(SliceData) > hdr.length => parsed.res = "TooManyBytes"

\* C22: FrameHeader::new(id, payload_length) succeeds exactly when
\* id <= 0xF0FF and either payload_length = 0, with length field 0, or
\* ceil((payload_length + 2) * 8 / 6) <= 0xF0FF, with that value as the
\* length field.  Otherwise it fails with InvalidLength when the encoded
\* length would exceed 0xF0FF or the overflow guard
\* (payload_length >= usize::MAX / 8 - 2) trips, whatever the id is, and with
\* InvalidID when only the id is out of range.  Frame::new and transmit with
\* the same id and a payload of that length return the same error, and a
\* header error only then.
C22_NewOutcome ==
    hdr.res # "none" =>
        LET n     == hdr.in_len
            id    == hdr.in_id
            enc   == IF n = 0 THEN 0 ELSE ((n + 2) * 8 + 5) \div 6
            lenOk == n = 0 \/ (n < 536870909 /\ enc <= 61695)
        IN  /\ hdr.res = "Ok" <=> (id <= 61695 /\ lenOk)
            /\ hdr.res = "Ok" => (hdr.id = id /\ hdr.length = enc)
            /\ ~lenOk => hdr.res = "InvalidLength"
            /\ (lenOk /\ id > 61695) => hdr.res = "InvalidID"
            /\ parsed.res # "none" =>
                   /\ hdr.res # "Ok" => parsed.res = hdr.res
                   /\ hdr.res = "Ok" => parsed.res \notin {"InvalidID", "InvalidLength"}
            /\ tx.res # "none" =>
                   /\ hdr.res # "Ok" => tx.res = hdr.res
                   /\ hdr.res = "Ok" => tx.res \notin {"InvalidID", "InvalidLength"}

\* C22 witness: id 0xF100 with a payload of 46270 bytes, one more than a
\* header can carry, is InvalidLength from all three
C22_Witness ==
    /\ hdr.in_id = 61696 /\ hdr.in_len = 46270
    /\ hdr.res = "InvalidLength"
    /\ parsed.res = "InvalidLength"
    /\ tx.res = "InvalidLength"

\* the wire frame that Frame::try_from((header, data)) was given: the header
\* hdr as as_bytes() writes it, followed by the data in wire
DecodedWireFrame == as_bytes([id |-> hdr.id, length |-> hdr.length]) \o wire

\* the bytes of the queue that the receive call which just returned a frame
\* took as that frame: what it flushed behind the bytes it skipped
ReceivedWireFrame ==
    LET k == rcv.skipped - rx.st0.skipped
    IN  SubSeq(rx.st0.q, k + 1, rcv.flushed - rx.st0.flushed)

\* C23 (as claimed): every wire frame that frame decoding or receive accepts
\* is byte for byte what transmit writes for the id and payload of the
\* resulting frame; a frame accepted with an empty payload has length field 0
\* and nothing behind its 6 header bytes, and no header with length field 1,
\* 2 or 3 is accepted as a frame.
C23_CanonicalFrames ==
    /\ (hdr.res = "Ok" /\ parsed.res = "Ok") =>
           /\ DecodedWireFrame = WireFrame(parsed.id, parsed.bytes)
           /\ parsed.bytes = << >> => (hdr.length = 0 /\ Len(DecodedWireFrame) = 6)
           /\ hdr.length \notin {1, 2, 3}
    /\ rx.res = "Ok" =>
           /\ ReceivedWireFrame = WireFrame(rx.id, rx.bytes)
           /\ rx.bytes = << >> => Len(ReceivedWireFrame) = 6

\* C24 (as claimed): with a queue whose peek_at(offset) returns a byte for
\* every offset < bytes_available(), no receive::<N>() returns
\* QueueUnderflow: the 6 header bytes are peeked only when 6 bytes are
\* there and the data_len() data bytes only when the whole frame is there;
\* and every peeked byte is stored inside the buffer it is copied into, the
\* 6-byte header buffer and, for every N >= header.payload_len(), the
\* N-byte data buffer, so no call aborts on a store.
C24_PeeksInBounds ==
    Called =>
        LET st == hunt(rx.st0)
            h  == FrameHeader_try_from(Take(st.q, 6))
        IN  /\ rx.res \notin {"QueueUnderflow", "Panic"}
            /\ Len(st.q) >= 6 => peek_bytes(st, 0, 6, 6).res = "Ok"
            /\ (/\ Len(st.q) >= 6 /\ h.res = "Ok"
                /\ rx.N >= payload_len(h)
                /\ Len(st.q) >= total_packet_len(h)) =>
                   peek_bytes(st, 6, data_len(h), rx.N).res = "Ok"

\* the receive call that just returned removed at least one byte
RemovedBytes == rcv.flushed > rx.st0.flushed /\ Len(rcv.q) < Len(rx.st0.q)

\* C25 (as claimed): progress of polling.  Every receive call returns, and
\* every call that returns a frame or a hard error has removed at least one
\* byte from the queue, so that polling a finite queue to which no new bytes
\* come reaches a WouldBlock result within as many calls as the queue has
\* bytes, plus one; and a call that follows a WouldBlock result without a
\* new byte in between returns WouldBlock again and leaves the queue and
\* bytes_skipped as they are.
C25_PollingSettles ==
    /\ [](Called => (rx.res = "WouldBlock" \/ (rx.res # "Panic" /\ RemovedBytes)))
    /\ [][ (rx.res = "WouldBlock" /\ rx'.res # "none") =>
               (rx'.res = "WouldBlock" /\ rcv' = rcv) ]_vars

\* Frame::<N>::try_from(&[u8]) was just applied to the slice
SliceParsed == hdr.res = "none" /\ parsed.res # "none"

\* C26 (as claimed): parsing a Frame<N> from a complete byte slice returns a
\* Frame or an Error value for every slice; a slice shorter than the 6-byte
\* header gives TooFewBytes, and no short input makes the call abort.
C26_NoFaultOnShortInput ==
    SliceParsed =>
        /\ parsed.res # "Panic"
        /\ Len(wire) < 6 => parsed.res = "TooFewBytes"

====
